---- MODULE Spec2Model ----
(***************************************************************************)
(* Model of the OpenTelemetry log viewer (src/fastapi_viewer.py): the      *)
(* in-memory LogStorage with its function-name index, the read            *)
(* operations, the HTTP routes that are live in the file, and the pure    *)
(* OTLP record parser parse_protobuf_logs; and of the StaticLogger of     *)
(* src/otel_logger.py: the singleton, configure and the log_execution     *)
(* wrapper.                                                                *)
(*                                                                         *)
(* Representation choices                                                  *)
(*  - a Python dict is a TLA+ function whose DOMAIN is its key set;        *)
(*  - an Optional[str] argument is a set with at most one string          *)
(*    ({} is None);                                                        *)
(*  - a text that the claims split on '|' (log body / message) is a       *)
(*    sequence of tokens, the token "|" being the pipe character;         *)
(*  - timestamps are integers ordered like the ISO strings they stand     *)
(*    for; durations are integers (tenths of a millisecond);              *)
(*  - uuid4() is a fresh identifier: the value of the counter nextId.     *)
(***************************************************************************)
EXTENDS Integers, Sequences, FiniteSets, TLC

\* Scaled stand-in for the literal 1000 of LogStorage.add_log (line 64).
Capacity == 3
\* Number of add_log calls explored (uuid values issued).
MaxAdds == 5
\* Largest limit argument explored for get_logs.
MaxLimit == 2

VARIABLES
    logs,               \* LogStorage.logs
    logs_by_function,   \* LogStorage.logs_by_function
    nextId,             \* the next value uuid4() yields
    evicted,            \* history: ids of the entries add_log has popped
    pc,                 \* position of the add_log call in progress
    new_record,         \* add_log's local log_record while in progress
    request_body,       \* the request bytes in hand
    parsed_logs,        \* value of the last parse_protobuf_logs call
    ret,                \* outcome of the last completed call
    instance,           \* StaticLogger._instance: 0 is None, else the object
    objects,            \* number of StaticLogger objects allocated so far
    initialized,        \* StaticLogger._initialized
    endpoint,           \* self.endpoint, {} while the attribute is not set
    telemetry           \* attributes _setup_telemetry has set on the object

loggerVars == <<instance, objects, initialized, endpoint, telemetry>>

storeVars == <<logs, logs_by_function, nextId, evicted, pc, new_record, request_body, parsed_logs>>

vars == <<logs, logs_by_function, nextId, evicted, pc, new_record, request_body, parsed_logs, ret,
          instance, objects, initialized, endpoint, telemetry>>

None == [none |-> TRUE]

\* class StaticLogger: _instance = None, _initialized = False
\* (src/otel_logger.py lines 23-24); no instance attribute exists yet.
StaticLoggerInit ==
    /\ instance = 0
    /\ objects = 0
    /\ initialized = FALSE
    /\ endpoint = {}
    /\ telemetry = {}

\* dict.get(key, default)
Get(d, k, default) == IF k \in DOMAIN d THEN d[k] ELSE default

Min(a, b) == IF a <= b THEN a ELSE b
Max(a, b) == IF a >= b THEN a ELSE b

-----------------------------------------------------------------------------
(* LogStorage *)

\* Values datetime.utcnow().isoformat() may yield at the time of a call.
ClockValues == {3}

\* The LogRecord that add_log builds from log_data (lines 44-59).
LogRecord(log_id, log_data, now) ==
    [id            |-> log_id,
     timestamp     |-> Get(log_data, "timestamp", now),
     level         |-> Get(log_data, "level", "INFO"),
     function_name |-> Get(log_data, "function_name", "unknown"),
     module        |-> Get(log_data, "module", "unknown"),
     duration_ms   |-> Get(log_data, "duration_ms", 0),
     status        |-> Get(log_data, "status", "unknown"),
     message       |-> Get(log_data, "message", <<>>),
     args          |-> Get(log_data, "args", {}),
     kwargs        |-> Get(log_data, "kwargs", {}),
     result        |-> Get(log_data, "result", {}),
     error         |-> Get(log_data, "error", {}),
     error_type    |-> Get(log_data, "error_type", {}),
     raw_data      |-> log_data]

\* defaultdict(list).__getitem__: the bucket of k, empty when k is new.
Bucket(index, k) == IF k \in DOMAIN index THEN index[k] ELSE <<>>

\* self.logs_by_function[k].append(r)   (line 62)
IndexAppend(index, k, r) ==
    [x \in DOMAIN index \cup {k} |->
        IF x = k THEN Append(Bucket(index, k), r) ELSE index[x]]

Contains(s, r) == \E i \in 1..Len(s) : s[i] = r

FirstIndex(s, r) == CHOOSE i \in 1..Len(s) :
                        s[i] = r /\ \A j \in 1..(i - 1) : s[j] # r

\* list.remove(r): drops the first element equal to r.
ListRemove(s, r) ==
    LET i == FirstIndex(s, r)
    IN  SubSeq(s, 1, i - 1) \o SubSeq(s, i + 1, Len(s))

\* Variant: the eviction leaves the index as it is.
IndexRemoveSkipped(index, k, r) ==
    [x \in DOMAIN index \cup {k} |-> Bucket(index, x)]

\* self.logs_by_function[k].remove(r)   (line 66); the key is created by the
\* defaultdict lookup even when remove then raises ValueError.
IndexRemove(index, k, r) ==
    [x \in DOMAIN index \cup {k} |->
        IF x = k /\ Contains(Bucket(index, k), r)
        THEN ListRemove(index[k], r)
        ELSE Bucket(index, x)]

\* Variant: the capacity test is off by one.
OverCapacityLate(s) == Len(s) > Capacity + 1

\* len(self.logs) > 1000   (line 64)
OverCapacity(s) == Len(s) > Capacity

\* Variant: the entry with the smallest timestamp is dropped.
PopOldestTimestamp(s) ==
    LET i == CHOOSE i \in 1..Len(s) :
                 /\ \A j \in 1..Len(s) : s[i].timestamp <= s[j].timestamp
                 /\ \A j \in 1..(i - 1) : s[j].timestamp > s[i].timestamp
    IN  SubSeq(s, 1, i - 1) \o SubSeq(s, i + 1, Len(s))

\* self.logs.pop(0)   (line 65): the list after the pop.
PopFirst(s) == Tail(s)

\* The store after lines 61-66 have run for record r.
StoreAfterAdd(r) ==
    LET appended == Append(logs, r)
        indexed  == IndexAppend(logs_by_function, r.function_name, r)
    IN  IF OverCapacity(appended)
        THEN LET removed_log == Head(appended)
             IN  [logs    |-> PopFirst(appended),
                  index   |-> IndexRemove(indexed, removed_log.function_name, removed_log),
                  removed |-> {removed_log.id},
                  raised  |-> ~Contains(Bucket(indexed, removed_log.function_name),
                                        removed_log)]
        ELSE [logs |-> appended, index |-> indexed, removed |-> {}, raised |-> FALSE]

\* No call is in progress on the event loop.
Idle == pc = "idle"

\* LogStorage.add_log(log_data), run to completion.
add_log(log_data) ==
    /\ Idle
    /\ nextId <= MaxAdds
    /\ \E now \in ClockValues :
         LET after == StoreAfterAdd(LogRecord(nextId, log_data, now))
         IN  /\ logs' = after.logs
             /\ logs_by_function' = after.index
             /\ evicted' = evicted \cup after.removed
             /\ ret' = IF after.raised
                       THEN [op |-> "add_log", raised |-> "ValueError"]
                       ELSE [op |-> "add_log", id |-> nextId]
    /\ nextId' = nextId + 1
    /\ UNCHANGED <<pc, new_record, request_body, loggerVars, parsed_logs>>

\* add_log statement by statement, for callers that could interleave.
\* Lines 42-61: build the record and append it to logs.
add_log_append(log_data) ==
    /\ Idle
    /\ nextId <= MaxAdds
    /\ \E now \in ClockValues :
         /\ new_record' = LogRecord(nextId, log_data, now)
         /\ logs' = Append(logs, new_record')
    /\ nextId' = nextId + 1
    /\ pc' = "appended"
    /\ UNCHANGED <<logs_by_function, evicted, request_body, loggerVars, parsed_logs, ret>>

\* Line 62: append the record to its bucket.
add_log_index ==
    /\ pc = "appended"
    /\ logs_by_function' = IndexAppend(logs_by_function, new_record.function_name, new_record)
    /\ pc' = "indexed"
    /\ UNCHANGED <<logs, nextId, evicted, new_record, request_body, loggerVars, parsed_logs, ret>>

\* Lines 64-65 and 68: test the length; pop the head, or return.
add_log_check ==
    /\ pc = "indexed"
    /\ IF OverCapacity(logs)
       THEN /\ logs' = PopFirst(logs)
            /\ evicted' = evicted \cup {Head(logs).id}
            /\ new_record' = [log_record |-> new_record, removed_log |-> Head(logs)]
            /\ pc' = "popped"
            /\ UNCHANGED ret
       ELSE /\ ret' = [op |-> "add_log", id |-> new_record.id]
            /\ new_record' = None
            /\ pc' = "idle"
            /\ UNCHANGED <<logs, evicted>>
    /\ UNCHANGED <<logs_by_function, nextId, request_body, loggerVars, parsed_logs>>

\* Lines 66 and 68: remove the popped record from its bucket and return.
add_log_remove ==
    /\ pc = "popped"
    /\ LET removed_log == new_record.removed_log
       IN  /\ logs_by_function' =
                 IndexRemove(logs_by_function, removed_log.function_name, removed_log)
           /\ ret' = IF Contains(Bucket(logs_by_function, removed_log.function_name),
                                 removed_log)
                     THEN [op |-> "add_log", id |-> new_record.log_record.id]
                     ELSE [op |-> "add_log", raised |-> "ValueError"]
    /\ new_record' = None
    /\ pc' = "idle"
    /\ UNCHANGED <<logs, nextId, evicted, request_body, loggerVars, parsed_logs>>

\* Variant: ascending order (reverse=True left out).
InsertAsc(sorted, x) ==
    LET before == {i \in 1..Len(sorted) : sorted[i].timestamp <= x.timestamp}
        k      == IF before = {} THEN 0
                  ELSE CHOOSE i \in before : \A j \in before : j <= i
    IN  SubSeq(sorted, 1, k) \o <<x>> \o SubSeq(sorted, k + 1, Len(sorted))

\* sorted(..., key=timestamp, reverse=True) is stable: x goes after every
\* element whose timestamp is >= its own.
InsertDesc(sorted, x) ==
    LET before == {i \in 1..Len(sorted) : sorted[i].timestamp >= x.timestamp}
        k      == IF before = {} THEN 0
                  ELSE CHOOSE i \in before : \A j \in before : j <= i
    IN  SubSeq(sorted, 1, k) \o <<x>> \o SubSeq(sorted, k + 1, Len(sorted))

RECURSIVE SortedDesc(_)
SortedDesc(s) ==
    IF s = <<>> THEN <<>>
    ELSE InsertDesc(SortedDesc(SubSeq(s, 1, Len(s) - 1)), s[Len(s)])

\* s[:limit], Python slice semantics (a negative limit counts from the end).
Slice(s, limit) ==
    IF limit >= 0 THEN SubSeq(s, 1, Min(limit, Len(s)))
    ELSE SubSeq(s, 1, Max(Len(s) + limit, 0))

\* Truth value of an Optional[str]: None and "" are both false.
Truthy(opt) == opt # {} /\ opt # {""}

TheString(opt) == CHOOSE s \in opt : TRUE

\* Value of LogStorage.get_logs(limit, function_name)   (lines 70-75)
get_logs_value(limit, function_name) ==
    LET filtered_logs ==
            IF Truthy(function_name)
            THEN Get(logs_by_function, TheString(function_name), <<>>)
            ELSE logs
    IN  Slice(SortedDesc(filtered_logs), limit)

\* Variant: the scan returns the first entry without comparing ids.
get_log_by_id_first(log_id) == IF logs = <<>> THEN None ELSE logs[1]

\* Value of LogStorage.get_log_by_id(log_id)   (lines 77-81)
get_log_by_id_value(log_id) ==
    LET hits == {i \in 1..Len(logs) : logs[i].id = log_id}
    IN  IF hits = {} THEN None
        ELSE logs[CHOOSE i \in hits : \A j \in hits : i <= j]

\* Variant: readers on other threads, free to run between any two statements.
ReaderMayRunAnytime == TRUE

\* A coroutine of the single event loop starts only when no other call is
\* in the middle of running: add_log contains no await.
ReaderMayRun == Idle

\* Variant: the bucket is read by subscript, which a defaultdict answers
\* for a new key by inserting an empty bucket.
IndexAfterSubscript(index, function_name) ==
    [k \in DOMAIN index \cup {function_name} |-> Bucket(index, k)]

\* self.logs_by_function.get(function_name, [])   (line 72): dict.get
\* answers a missing key with the default and leaves the index as it is.
IndexAfterGet(index, function_name) == index

\* sorted(filtered_logs, ...)   (line 75) builds a new list; the list it is
\* given keeps its order.
ListAfterSorted(list) == list

\* LogStorage.get_logs(limit, function_name)   (lines 70-75): the value
\* returned, and the store as the lookup and the sort leave it.
get_logs(limit, function_name) ==
    /\ ReaderMayRun
    /\ ret' = [op |-> "get_logs", limit |-> limit, function_name |-> function_name,
               value |-> get_logs_value(limit, function_name)]
    /\ IF Truthy(function_name)
       THEN LET index == IndexAfterGet(logs_by_function, TheString(function_name))
            IN  /\ logs_by_function' =
                       IF TheString(function_name) \in DOMAIN index
                       THEN [index EXCEPT ![TheString(function_name)] = ListAfterSorted(@)]
                       ELSE index
                /\ logs' = logs
       ELSE /\ logs' = ListAfterSorted(logs)
            /\ logs_by_function' = logs_by_function
    /\ UNCHANGED <<nextId, evicted, pc, new_record, request_body, loggerVars, parsed_logs>>

get_log_by_id(log_id) ==
    /\ ReaderMayRun
    /\ ret' = [op |-> "get_log_by_id", log_id |-> log_id,
               value |-> get_log_by_id_value(log_id)]
    /\ UNCHANGED <<logs, logs_by_function, nextId, evicted, pc, new_record, request_body, loggerVars, parsed_logs>>

\* GET /api/logs/{log_id}   (lines 414-419)
get_log_detail_api(log_id) ==
    /\ ReaderMayRun
    /\ LET log == get_log_by_id_value(log_id)
       IN  ret' = IF log = None
                  THEN [op |-> "get_log_detail_api", log_id |-> log_id,
                        status |-> 404, detail |-> "Log not found"]
                  ELSE [op |-> "get_log_detail_api", log_id |-> log_id,
                        status |-> 200, body |-> log]
    /\ UNCHANGED <<logs, logs_by_function, nextId, evicted, pc, new_record, request_body, loggerVars, parsed_logs>>

-----------------------------------------------------------------------------
(* Inputs *)

\* Token sequences standing for message texts.
Hello == <<"hello">>

\* Dictionaries handed to add_log directly.
LogDataInputs ==
    { [timestamp |-> 2, level |-> "WARN", function_name |-> "f", message |-> Hello],
      [timestamp |-> 1, function_name |-> "f"],
      [timestamp |-> 1, function_name |-> ""],
      [message |-> Hello] }

LimitArgs == (-1)..MaxLimit

FunctionNameArgs == { {}, {""}, {"f"}, {"g"} }

LogIdArgs == 0..(MaxAdds + 1)

-----------------------------------------------------------------------------
(* Specification of the store and its readers *)

Init ==
    /\ logs = <<>>
    /\ logs_by_function = <<>>
    /\ nextId = 1
    /\ evicted = {}
    /\ pc = "idle"
    /\ new_record = None
    /\ request_body = None
    /\ StaticLoggerInit
    /\ parsed_logs = None
    /\ ret = [op |-> "init"]

AddLog == \E log_data \in LogDataInputs : add_log(log_data)
GetLogs == \E limit \in LimitArgs, function_name \in FunctionNameArgs :
               get_logs(limit, function_name)
GetLogById == \E log_id \in LogIdArgs : get_log_by_id(log_id)
GetLogDetailApi == \E log_id \in LogIdArgs : get_log_detail_api(log_id)

Next ==
    \/ AddLog
    \/ GetLogs
    \/ GetLogById
    \/ GetLogDetailApi

Spec == Init /\ [][Next]_vars

\* The same store with add_log taken one statement at a time.
AddLogAppend == \E log_data \in LogDataInputs : add_log_append(log_data)
AddLogIndex == add_log_index
AddLogCheck == add_log_check
AddLogRemove == add_log_remove

StepNext ==
    \/ AddLogAppend
    \/ AddLogIndex
    \/ AddLogCheck
    \/ AddLogRemove
    \/ GetLogs
    \/ GetLogById
    \/ GetLogDetailApi

StepSpec == Init /\ [][StepNext]_vars

-----------------------------------------------------------------------------
(* OTLP decoding: extract_attribute_value, extract_any_value,             *)
(* parse_protobuf_logs.                                                    *)
(* A protobuf AnyValue is a record with the one field that is set, or      *)
(* Unset; a KeyValue is [key, value]; a Python value is tagged with its    *)
(* type: [t |-> "str" | "int" | "list" | "dict", v |-> ...].               *)

Unset == [unset |-> TRUE]

HasField(message, field) == field \in DOMAIN message

PyStr(v) == [t |-> "str", v |-> v]
PyInt(v) == [t |-> "int", v |-> v]
PyList(v) == [t |-> "list", v |-> v]
PyDict(v) == [t |-> "dict", v |-> v]

EmptyDict == <<>>

Returned(v) == [ok |-> TRUE, v |-> v]
Raised(e) == [ok |-> FALSE, raised |-> e]

\* {kv.key: value for kv in values}, a later key overriding an earlier one.
RECURSIVE DictOf(_, _)
DictOf(keys, values) ==
    IF keys = <<>> THEN EmptyDict
    ELSE LET n    == Len(keys)
             rest == DictOf(SubSeq(keys, 1, n - 1), SubSeq(values, 1, n - 1))
         IN  [k \in DOMAIN rest \cup {keys[n]} |->
                 IF k = keys[n] THEN values[n] ELSE rest[k]]

\* extract_any_value(any_value)   (lines 129-146)
RECURSIVE extract_any_value(_)
extract_any_value(any_value) ==
    IF HasField(any_value, "string_value") THEN PyStr(any_value.string_value)
    ELSE IF HasField(any_value, "int_value") THEN PyInt(any_value.int_value)
    ELSE IF HasField(any_value, "array_value")
    THEN PyList([i \in 1..Len(any_value.array_value) |->
                    extract_any_value(any_value.array_value[i])])
    ELSE IF HasField(any_value, "kvlist_value")
    THEN LET kvs == any_value.kvlist_value
         IN  PyDict(DictOf([i \in 1..Len(kvs) |-> kvs[i].key],
                           [i \in 1..Len(kvs) |-> extract_any_value(kvs[i].value)]))
    ELSE PyStr(<<>>)

\* extract_attribute_value(attribute)   (lines 109-126).  Every branch reads
\* attribute.value first; the recursive calls pass an AnyValue (an array
\* item, or kv.value), which has no field named value, so they raise
\* AttributeError.
RECURSIVE extract_attribute_value(_)
extract_attribute_value(attribute) ==
    IF ~HasField(attribute, "value") THEN Raised("AttributeError")
    ELSE LET value == attribute.value
         IN  IF HasField(value, "string_value") THEN Returned(PyStr(value.string_value))
             ELSE IF HasField(value, "int_value") THEN Returned(PyInt(value.int_value))
             ELSE IF HasField(value, "array_value")
             THEN LET items == [i \in 1..Len(value.array_value) |->
                                   extract_attribute_value(value.array_value[i])]
                  IN  IF \E i \in 1..Len(items) : ~items[i].ok
                      THEN Raised("AttributeError")
                      ELSE Returned(PyList([i \in 1..Len(items) |-> items[i].v]))
             ELSE IF HasField(value, "kvlist_value")
             THEN LET kvs   == value.kvlist_value
                      items == [i \in 1..Len(kvs) |-> extract_attribute_value(kvs[i].value)]
                  IN  IF \E i \in 1..Len(items) : ~items[i].ok
                      THEN Raised("AttributeError")
                      ELSE Returned(PyDict(DictOf([i \in 1..Len(kvs) |-> kvs[i].key],
                                                  [i \in 1..Len(items) |-> items[i].v])))
             ELSE Returned(PyStr(""))

\* for attr in attributes: d[attr.key] = extract_attribute_value(attr)
AttributesDict(attributes) ==
    LET items == [i \in 1..Len(attributes) |-> extract_attribute_value(attributes[i])]
    IN  IF \E i \in 1..Len(items) : ~items[i].ok
        THEN Raised("AttributeError")
        ELSE Returned(DictOf([i \in 1..Len(attributes) |-> attributes[i].key],
                             [i \in 1..Len(items) |-> items[i].v]))

\* JSON texts carried by the otel.log_data attribute.
JsonEmptyObject == "{}"
JsonLevel == "{\"level\": \"DEBUG\"}"
JsonFunction == "{\"function_name\": \"f\"}"
JsonFull == "{\"level\": \"DEBUG\", \"function_name\": \"f\", \"duration_ms\": 5}"
JsonError == "{\"status\": \"error\", \"error\": \"boom\", \"error_type\": \"ValueError\"}"
JsonArray == "[1]"
NotJson == "not json"

\* json.loads(text) on the texts above; any other text raises.
json_loads(text) ==
    IF text = JsonEmptyObject THEN Returned(PyDict(EmptyDict))
    ELSE IF text = JsonLevel THEN Returned(PyDict([level |-> "DEBUG"]))
    ELSE IF text = JsonFunction THEN Returned(PyDict([function_name |-> "f"]))
    ELSE IF text = JsonFull
    THEN Returned(PyDict([level |-> "DEBUG", function_name |-> "f", duration_ms |-> 5]))
    ELSE IF text = JsonError
    THEN Returned(PyDict([status |-> "error", error |-> "boom", error_type |-> "ValueError"]))
    ELSE IF text = JsonArray THEN Returned(PyList(<<PyInt(1)>>))
    ELSE Raised("JSONDecodeError")

\* 1_000_000_000   (line 184)
NanosPerSecond == 1000000000

\* The request's records in the order of the three nested loops (lines 158,
\* 165, 172), each with the groups that enclose it.
RecordContexts(export_request) ==
    LET RECURSIVE Flatten(_)
        Flatten(groups) ==
            IF groups = <<>> THEN <<>>
            ELSE Flatten(SubSeq(groups, 1, Len(groups) - 1)) \o groups[Len(groups)]
        OfScope(resource_logs, scope_logs) ==
            [i \in 1..Len(scope_logs.log_records) |->
                [resource_logs |-> resource_logs, scope_logs |-> scope_logs,
                 log_record |-> scope_logs.log_records[i]]]
        OfResource(resource_logs) ==
            Flatten([j \in 1..Len(resource_logs.scope_logs) |->
                        OfScope(resource_logs, resource_logs.scope_logs[j])])
    IN  Flatten([i \in 1..Len(export_request.resource_logs) |->
                    OfResource(export_request.resource_logs[i])])

\* log_record.severity_text or otel_log_data.get('level', 'INFO')   (line 196)
ParsedLevel(log_record, otel_log_data) ==
    IF log_record.severity_text # "" THEN log_record.severity_text
    ELSE Get(otel_log_data, "level", "INFO")

\* otel_log_data.get('function_name', 'unknown')   (line 197)
ParsedFunctionName(scope_logs, otel_log_data) ==
    Get(otel_log_data, "function_name", "unknown")

\* 'message': body   (line 201)
ParsedMessage(body) == body.v

\* d.get(k) with no default: the value, or None; an Optional value is the
\* set of at most one element, None the empty one.
OptionalGet(d, k) == IF k \in DOMAIN d THEN {d[k]} ELSE {}

\* A variant in which the text that is no JSON is not tolerated.
otel_log_data_strict(log_attributes) ==
    LET attribute == Get(log_attributes, "otel.log_data", PyDict(EmptyDict))
    IN  IF attribute.t = "str" THEN json_loads(attribute.v) ELSE Returned(attribute)

\* otel_log_data = log_attributes.get('otel.log_data', {}) and its decoding
\* (lines 186-192): a string is read as JSON, and {} stands in for a string
\* that json.loads rejects; any other value is kept as it is.
otel_log_data_value(log_attributes) ==
    LET attribute == Get(log_attributes, "otel.log_data", PyDict(EmptyDict))
    IN  IF attribute.t = "str"
        THEN IF json_loads(attribute.v).ok THEN json_loads(attribute.v)
             ELSE Returned(PyDict(EmptyDict))
        ELSE Returned(attribute)

\* The body of the innermost loop (lines 173-216) for one record: the
\* log_data dictionary, or the exception that escapes.
ParsedRecord(context, now) ==
    LET log_record          == context.log_record
        resource_attributes == AttributesDict(context.resource_logs.resource.attributes)
        scope_attributes    == AttributesDict(context.scope_logs.scope.attributes)
        log_attributes      == AttributesDict(log_record.attributes)
    IN  IF ~resource_attributes.ok \/ ~scope_attributes.ok \/ ~log_attributes.ok
        THEN Raised("AttributeError")
        ELSE
        LET body      == extract_any_value(log_record.body)
            timestamp == IF log_record.time_unix_nano # 0
                         THEN log_record.time_unix_nano \div NanosPerSecond
                         ELSE now
            decoded   == otel_log_data_value(log_attributes.v)
            otel_log_data == decoded.v
        IN  IF ~decoded.ok THEN Raised(decoded.raised)
            ELSE IF otel_log_data.t # "dict" THEN Raised("AttributeError")
            ELSE Returned(
                [timestamp           |-> timestamp,
                 level               |-> ParsedLevel(log_record, otel_log_data.v),
                 function_name       |-> ParsedFunctionName(context.scope_logs, otel_log_data.v),
                 module              |-> Get(otel_log_data.v, "module", "unknown"),
                 duration_ms         |-> Get(otel_log_data.v, "duration_ms", 0),
                 status              |-> Get(otel_log_data.v, "status", "unknown"),
                 message             |-> ParsedMessage(body),
                 args                |-> OptionalGet(otel_log_data.v, "args"),
                 kwargs              |-> OptionalGet(otel_log_data.v, "kwargs"),
                 result              |-> OptionalGet(otel_log_data.v, "result"),
                 error               |-> OptionalGet(otel_log_data.v, "error"),
                 error_type          |-> OptionalGet(otel_log_data.v, "error_type"),
                 severity_text       |-> log_record.severity_text,
                 resource_attributes |-> resource_attributes.v,
                 scope_attributes    |-> scope_attributes.v,
                 log_attributes      |-> log_attributes.v])

\* Request bytes: [encoding |-> "raw" | "gzip" | "badgzip", payload |-> p],
\* p the content once any gzip layer is removed: a serialized
\* ExportLogsServiceRequest, JSON text, or bytes that are no protobuf.
\* ParseFromString succeeds on uncompressed protobuf bytes only.
ParseFromString(data) ==
    IF data.encoding = "raw" /\ data.payload.wire = "protobuf"
    THEN Returned(data.payload.message)
    ELSE Raised("DecodeError")

\* parse_protobuf_logs(protobuf_data)   (lines 149-221): the list of
\* log_data dictionaries, or ValueError for any exception inside.
parse_protobuf_logs_value(protobuf_data, now) ==
    LET export_request == ParseFromString(protobuf_data)
    IN  IF ~export_request.ok THEN Raised("ValueError")
        ELSE LET contexts == RecordContexts(export_request.v)
                 records  == [i \in 1..Len(contexts) |-> ParsedRecord(contexts[i], now)]
             IN  IF \E i \in 1..Len(records) : ~records[i].ok
                 THEN Raised("ValueError")
                 ELSE Returned([i \in 1..Len(records) |-> records[i].v])

\* gzip.decompress(data)   (line 359)
gzip_decompress(data) ==
    IF data.encoding = "gzip"
    THEN Returned([encoding |-> "raw", payload |-> data.payload])
    ELSE Raised("BadGzipFile")

HTTPException(status_code, detail) ==
    [ok |-> FALSE, raised |-> "HTTPException", status |-> status_code, detail |-> detail]

\* sum(len(scope_logs.log_records) ...)   (lines 380-384)
TotalLogRecords(export_request) == Len(RecordContexts(export_request))

\* The statements inside the outer try of decode_protobuf_logs (lines
\* 347-400): the returned dictionary, or the exception that leaves them.
DecodeAttempt(content_encoding, data) ==
    LET decompressed == IF content_encoding = "gzip" THEN gzip_decompress(data)
                        ELSE Returned(data)
    IN  IF ~decompressed.ok
        THEN HTTPException(400, "Gzip decompression failed")
        ELSE LET export_request == ParseFromString(decompressed.v)
             IN  IF ~export_request.ok
                 THEN HTTPException(400, "Protobuf parsing failed")
                 ELSE Returned(
                        [status |-> "success",
                         message |-> "Protobuf decoded successfully",
                         resource_logs_count |-> Len(export_request.v.resource_logs),
                         total_log_records |-> TotalLogRecords(export_request.v),
                         raw_protobuf_structure |-> "protobuf_to_dict(export_request)"])

\* except Exception (lines 402-404): HTTPException is an Exception, so the
\* 400s raised inside the try leave the handler as 500.
DecodeResponse(content_encoding, data) ==
    LET attempt == DecodeAttempt(content_encoding, data)
    IN  IF attempt.ok THEN [status |-> 200, body |-> attempt.v]
        ELSE [status |-> 500, body |-> [detail |-> "Internal server error"]]

\* POST /api/logs   (lines 341-404).  The store is not touched.
decode_protobuf_logs(content_type, content_encoding) ==
    /\ Idle
    /\ request_body # None
    /\ ret' = [op |-> "decode_protobuf_logs", content_type |-> content_type,
               content_encoding |-> content_encoding,
               response |-> DecodeResponse(content_encoding, request_body)]
    /\ UNCHANGED <<logs, logs_by_function, nextId, evicted, pc, new_record, request_body, loggerVars, parsed_logs>>

\* parse_protobuf_logs(body) applied to the request bytes
parse_protobuf_logs ==
    /\ Idle
    /\ request_body # None
    /\ parsed_logs = None
    /\ \E now \in ClockValues :
          parsed_logs' = parse_protobuf_logs_value(request_body, now)
    /\ ret' = [op |-> "parse_protobuf_logs", ok |-> parsed_logs'.ok]
    /\ UNCHANGED <<logs, logs_by_function, nextId, evicted, pc, new_record, request_body, loggerVars>>

-----------------------------------------------------------------------------
(* Inputs of the ingestion path *)

KeyValue(key, value) == [key |-> key, value |-> value]

\* "x|WARN|doThing|12.5ms|hello"
LegacyBody == <<"x", "|", "WARN", "|", "doThing", "|", "12.5ms", "|", "hello">>

OtelAttribute(text) == <<KeyValue("otel.log_data", [string_value |-> text])>>

AttributeChoices ==
    { <<>>,
      OtelAttribute(NotJson), OtelAttribute(JsonEmptyObject), OtelAttribute(JsonLevel),
      OtelAttribute(JsonFunction), OtelAttribute(JsonFull), OtelAttribute(JsonError),
      OtelAttribute(JsonArray),
      <<KeyValue("otel.log_data", [int_value |-> 7])>>,
      <<KeyValue("tags", [array_value |-> <<[string_value |-> "a"]>>])>>,
      <<KeyValue("tags", [array_value |-> <<>>]), KeyValue("n", [int_value |-> 1])>>,
      <<KeyValue("tags", [array_value |-> <<[array_value |-> <<[string_value |-> "a"]>>]>>])>>,
      <<KeyValue("ctx", [kvlist_value |-> <<KeyValue("k", [string_value |-> "a"])>>])>> }

LogRecordInputs ==
    [time_unix_nano : {0, 2 * NanosPerSecond},
     severity_text  : {"", "WARN"},
     body           : {[string_value |-> Hello], [string_value |-> LegacyBody], Unset},
     attributes     : AttributeChoices]

ScopeLogs(name, log_records) ==
    [scope |-> [name |-> name, attributes |-> <<>>], log_records |-> log_records]

ResourceLogs(scope_logs) ==
    [resource   |-> [attributes |-> <<KeyValue("service.name", [string_value |-> "svc"])>>],
     scope_logs |-> scope_logs]

\* Records used where a batch holds more than one.
PlainRecord ==
    [time_unix_nano |-> NanosPerSecond, severity_text |-> "", body |-> [string_value |-> Hello],
     attributes |-> OtelAttribute(JsonFunction)]

SiblingInputs ==
    { PlainRecord,
      [PlainRecord EXCEPT !.attributes = OtelAttribute(NotJson)],
      [PlainRecord EXCEPT !.attributes = OtelAttribute(JsonArray)] }

ExportRequests ==
    { [resource_logs |-> <<>>] }
    \cup { [resource_logs |-> <<ResourceLogs(<<ScopeLogs(name, <<r>>)>>)>>] :
              name \in {"", "s"}, r \in LogRecordInputs }
    \cup { [resource_logs |-> <<ResourceLogs(<<ScopeLogs("s", <<r1, r2>>)>>)>>] :
              r1 \in SiblingInputs, r2 \in SiblingInputs }
    \cup { [resource_logs |-> <<ResourceLogs(<<ScopeLogs("s", <<r>>), ScopeLogs("", <<>>)>>),
                                ResourceLogs(<<ScopeLogs("", <<PlainRecord>>)>>)>>] :
              r \in SiblingInputs }

Protobuf(export_request) == [wire |-> "protobuf", message |-> export_request]

RequestBodies ==
    { [encoding |-> "raw", payload |-> Protobuf(m)] : m \in ExportRequests }
    \cup { [encoding |-> e, payload |-> Protobuf(
               [resource_logs |-> <<ResourceLogs(<<ScopeLogs("s", <<PlainRecord>>)>>)>>])] :
              e \in {"gzip", "badgzip"} }
    \cup { [encoding |-> e, payload |-> [wire |-> w]] :
              e \in {"raw", "gzip"}, w \in {"json", "truncated"} }

ContentTypes ==
    {"", "application/x-protobuf", "application/octet-stream", "application/json",
     "text/plain"}

ContentEncodings == {"", "gzip"}

-----------------------------------------------------------------------------
(* Specification of the ingestion path: one request body is decoded by the *)
(* POST route, parsed by parse_protobuf_logs, and the parsed dictionaries   *)
(* are handed to add_log in order.                                          *)

IngestInit ==
    /\ logs = <<>>
    /\ logs_by_function = <<>>
    /\ nextId = 1
    /\ evicted = {}
    /\ pc = "idle"
    /\ new_record = None
    /\ request_body \in RequestBodies
    /\ StaticLoggerInit
    /\ parsed_logs = None
    /\ ret = [op |-> "init"]

DecodeProtobufLogs ==
    \E content_type \in ContentTypes, content_encoding \in ContentEncodings :
        decode_protobuf_logs(content_type, content_encoding)

ParseProtobufLogs == parse_protobuf_logs

\* for log_data in parsed_logs: log_storage.add_log(log_data)
AddParsed ==
    /\ parsed_logs # None
    /\ parsed_logs.ok
    /\ nextId <= Len(parsed_logs.v)
    /\ add_log(parsed_logs.v[nextId])

IngestNext ==
    \/ DecodeProtobufLogs
    \/ ParseProtobufLogs
    \/ AddParsed
    \/ GetLogDetailApi

IngestSpec == IngestInit /\ [][IngestNext]_vars

-----------------------------------------------------------------------------
(* StaticLogger (src/otel_logger.py): the singleton, configure, and the    *)
(* wrapper that log_execution puts around a function.                      *)

\* __new__   (lines 26-29): the object cls._instance holds after the call.
new(current, fresh) == IF current = 0 THEN fresh ELSE current

\* StaticLogger()   (lines 26-32, and line 255 at import)
StaticLogger ==
    /\ instance' = new(instance, objects + 1)
    /\ objects' = IF instance' = instance THEN objects ELSE objects + 1
    /\ ret' = [op |-> "StaticLogger", value |-> instance']
    /\ UNCHANGED <<initialized, endpoint, telemetry>>
    /\ UNCHANGED storeVars

\* "http://localhost:4317"   (line 37)
DefaultEndpoint == "http://localhost:4317"

\* endpoint if endpoint else "http://localhost:4317"   (line 37)
EndpointOrDefault(endpoint_arg) ==
    IF Truthy(endpoint_arg) THEN TheString(endpoint_arg) ELSE DefaultEndpoint

\* _setup_telemetry   (lines 41-77) sets self.tracer at line 52 and
\* self.logger at line 77; a call that raises before either line leaves the
\* attribute unset.
SetupOutcomes == {"ok", "raises_before_tracer", "raises_before_logger"}

TelemetryAfter(setup) ==
    IF setup = "ok" THEN {"tracer", "logger"}
    ELSE IF setup = "raises_before_logger" THEN {"tracer"}
    ELSE {}

\* Variant: configure does not look at the flag.
ConfigureRunsAlways == TRUE

\* if not self._initialized:   (line 36)
ConfigureRuns == ~initialized

\* configure(endpoint)   (lines 34-39); setup is what _setup_telemetry does
\* in this call.
configure(endpoint_arg, setup) ==
    /\ instance # 0
    /\ IF ConfigureRuns
       THEN /\ endpoint' = {EndpointOrDefault(endpoint_arg)}
            /\ telemetry' = telemetry \cup TelemetryAfter(setup)
            /\ initialized' = IF setup = "ok" THEN TRUE ELSE initialized
            /\ ret' = [op |-> "configure", endpoint |-> endpoint_arg, raised |-> setup # "ok"]
       ELSE /\ UNCHANGED <<endpoint, telemetry, initialized>>
            /\ ret' = [op |-> "configure", endpoint |-> endpoint_arg, raised |-> FALSE]
    /\ UNCHANGED <<instance, objects>>
    /\ UNCHANGED storeVars

\* How a call ends: with a value (an Optional, {} being None) or with an
\* exception.  An exception is [type, is_exception, truthy]: is_exception
\* tells a subclass of Exception from a bare BaseException such as
\* KeyboardInterrupt; truthy is bool(e), True unless the class defines
\* __bool__ or __len__ otherwise.
Returns(value) == [kind |-> "returns", value |-> value]
Raises(exception) == [kind |-> "raises", exception |-> exception]

PyException(type, is_exception, truthy) ==
    [type |-> type, is_exception |-> is_exception, truthy |-> truthy]

\* What a logging or tracing call raises when it fails.
LoggingFailure == PyException("LoggingFailure", TRUE, TRUE)

\* if exception_occurred:   (lines 111, 113, 121, 188)
ExceptionOccurredIsTrue(exception_occurred) ==
    exception_occurred # {} /\ (CHOOSE e \in exception_occurred : TRUE).truthy

\* _handle_decorator_failure   (lines 195-198): one logging.error call,
\* outside any try; when it raises, the exception leaves the wrapper.
handle_decorator_failure(handler_raises, continuation) ==
    IF handler_raises THEN Raises(LoggingFailure) ELSE continuation

\* wrapper(*args, **kwargs)   (lines 88-190) around a function that ends
\* as func_outcome; step_raises: a call of the logging/tracing block
\* (lines 104-178) raises an Exception; handler_raises: the logging.error
\* call of _handle_decorator_failure raises.
wrapper_outcome(func_outcome, step_raises, handler_raises) ==
    LET escapes == func_outcome.kind = "raises" /\ ~func_outcome.exception.is_exception
        result  == IF func_outcome.kind = "returns" THEN func_outcome.value ELSE {}
        exception_occurred ==
            IF func_outcome.kind = "raises" THEN {func_outcome.exception} ELSE {}
        \* lines 187-190
        step3 == IF ExceptionOccurredIsTrue(exception_occurred)
                 THEN Raises(CHOOSE e \in exception_occurred : TRUE)
                 ELSE Returns(result)
        \* lines 180-185
        caught == handle_decorator_failure(handler_raises, step3)
    IN  IF escapes THEN func_outcome                    \* not caught at line 96
        ELSE IF step_raises THEN caught
        ELSE IF ~initialized
        THEN IF ExceptionOccurredIsTrue(exception_occurred)
             THEN caught                                \* raised at 114, caught at 180
             ELSE Returns(result)                       \* line 115
        ELSE step3

\* One call of a function decorated with @logger.log_execution(...).
wrapper(func_outcome, step_raises, handler_raises) ==
    /\ instance # 0
    /\ ret' = [op |-> "wrapper", func |-> func_outcome, calls |-> 1,
               step_raises |-> step_raises, handler_raises |-> handler_raises,
               outcome |-> wrapper_outcome(func_outcome, step_raises, handler_raises)]
    /\ UNCHANGED loggerVars
    /\ UNCHANGED storeVars

-----------------------------------------------------------------------------
(* Inputs and specification of the logger *)

EndpointArgs == { {}, {""}, {"http://collector:4317"}, {"http://other:4317"} }

FuncOutcomes ==
    { Returns({}), Returns({45}),
      Raises(PyException("ValueError", TRUE, TRUE)),
      Raises(PyException("EmptyErrors", TRUE, FALSE)),
      Raises(PyException("KeyboardInterrupt", FALSE, TRUE)) }

Construct == StaticLogger

Configure ==
    \E endpoint_arg \in EndpointArgs, setup \in SetupOutcomes :
        configure(endpoint_arg, setup)

Wrapper ==
    \E func_outcome \in FuncOutcomes, step_raises \in BOOLEAN, handler_raises \in BOOLEAN :
        wrapper(func_outcome, step_raises, handler_raises)

LoggerNext == Construct \/ Configure \/ Wrapper

LoggerSpec == Init /\ [][LoggerNext]_vars

-----------------------------------------------------------------------------
(* Properties of the store *)

IdsOf(s) == {s[i].id : i \in 1..Len(s)}

\* Positions <<k, j>> of the index that hold the record r.
IndexPositions(r) ==
    {p \in UNION {{<<k, j>> : j \in 1..Len(logs_by_function[k])} :
                    k \in DOMAIN logs_by_function} :
        logs_by_function[p[1]][p[2]] = r}

\* ids that add_log has returned so far
Issued == 1..(nextId - 1)

\* C1: between add_log calls the primary sequence and the function-name
\* index agree: every entry of logs occurs exactly once in the index, in the
\* bucket keyed by its own function_name, and every element of every bucket
\* is an entry of logs (no evicted entry stays in a bucket).
C1_IndexAgrees ==
    Idle =>
      /\ \A i \in 1..Len(logs) :
            /\ Cardinality(IndexPositions(logs[i])) = 1
            /\ \A p \in IndexPositions(logs[i]) : p[1] = logs[i].function_name
      /\ \A k \in DOMAIN logs_by_function :
            \A j \in 1..Len(logs_by_function[k]) :
                /\ Contains(logs, logs_by_function[k][j])
                /\ logs_by_function[k][j].id \notin evicted

C1_Witness ==
    /\ ret.op = "add_log"
    /\ evicted # {}
    /\ \E k \in DOMAIN logs_by_function : Len(logs_by_function[k]) >= 2
    /\ \E k \in DOMAIN logs_by_function : logs_by_function[k] = <<>>

\* A step that completes an add_log call.
AddCompletes == ret'.op = "add_log" /\ nextId' = nextId + 1

\* C2: after every completed add_log the primary sequence holds at most
\* Capacity entries, and an add that pushes the length over Capacity removes
\* exactly one entry before it returns.
C2_Bounded ==
    /\ [](Idle => Len(logs) <= Capacity)
    /\ [][AddCompletes =>
            /\ Len(logs') = Min(Len(logs) + 1, Capacity)
            /\ Cardinality(IdsOf(logs) \ IdsOf(logs')) =
                  (IF Len(logs) + 1 > Capacity THEN 1 ELSE 0)]_vars

C2_Witness ==
    /\ ret.op = "add_log"
    /\ Len(logs) = Capacity
    /\ Cardinality(evicted) = MaxAdds - Capacity

\* C3: eviction is FIFO by insertion order and happens only inside add_log:
\* an entry leaves logs only in an add_log step taken at full capacity, the
\* entry that leaves is the earliest inserted one (the head), whatever its
\* timestamp, and the resident entries are always the last
\* min(Capacity, number of insertions) inserted, in insertion order.
C3_Fifo ==
    /\ [][(IdsOf(logs) \ IdsOf(logs') # {}) =>
            /\ AddCompletes
            /\ Len(logs) = Capacity
            /\ IdsOf(logs) \ IdsOf(logs') = {Head(logs).id}
            /\ evicted' = evicted \cup {Head(logs).id}
            /\ Len(logs') = Capacity
            /\ SubSeq(logs', 1, Capacity - 1) = Tail(logs)]_vars
    /\ [](Idle =>
            /\ Len(logs) = Min(nextId - 1, Capacity)
            /\ \A i \in 1..Len(logs) : logs[i].id = nextId - 1 - Len(logs) + i
            /\ evicted = 1..(nextId - 1 - Len(logs)))

\* An eviction has happened and the entry that is next to go is not the one
\* with the smallest timestamp.
C3_Witness ==
    /\ evicted # {}
    /\ Len(logs) = Capacity
    /\ \E i \in 2..Len(logs) : logs[i].timestamp < logs[1].timestamp
    /\ nextId = MaxAdds + 1

\* Every change to logs has its matching change in the index, and back.
Matched ==
    /\ \A i \in 1..Len(logs) :
          Contains(Bucket(logs_by_function, logs[i].function_name), logs[i])
    /\ \A k \in DOMAIN logs_by_function :
          \A j \in 1..Len(logs_by_function[k]) : Contains(logs, logs_by_function[k][j])

ReaderOps == {"get_logs", "get_log_by_id", "get_log_detail_api"}

\* A step in which a reader returns.
ReaderReturns == ret' # ret /\ ret'.op \in ReaderOps

C6_Lookup ==
    /\ \A log_id \in LogIdArgs :
          IF log_id \notin Issued \/ log_id \in evicted
          THEN get_log_by_id_value(log_id) = None
          ELSE /\ get_log_by_id_value(log_id) # None
               /\ get_log_by_id_value(log_id).id = log_id
               /\ Contains(logs, get_log_by_id_value(log_id))
    /\ ret.op = "get_log_by_id" =>
          IF ret.log_id \notin Issued \/ ret.log_id \in evicted
          THEN ret.value = None
          ELSE ret.value # None /\ ret.value.id = ret.log_id
    /\ ret.op = "get_log_detail_api" =>
          IF ret.log_id \notin Issued \/ ret.log_id \in evicted
          THEN ret.status = 404
          ELSE ret.status = 200 /\ ret.body.id = ret.log_id
                 /\ Contains(logs, ret.body)

C6_Witness ==
    /\ ret.op = "get_log_detail_api"
    /\ ret.status = 404
    /\ ret.log_id \in evicted
    /\ \E i \in 1..Len(logs) : logs[i].id = ret.log_id + 1

\* Resident entries a get_logs call with this filter is said to select.
Matching(function_name) ==
    {i \in 1..Len(logs) :
        function_name = {} \/ logs[i].function_name \in function_name}

OrderedDesc(s) == \A i \in 1..(Len(s) - 1) : s[i].timestamp >= s[i + 1].timestamp

\* C7 as stated: for every limit and every function_name f, get_logs returns
\* only resident entries whose function_name is f, ordered by timestamp
\* descending, min(limit, number of matching entries) of them; without a
\* filter the same over all entries.
C7_AsStated ==
    ret.op = "get_logs" =>
      /\ \A i \in 1..Len(ret.value) :
            /\ Contains(logs, ret.value[i])
            /\ ret.function_name # {} =>
                  ret.value[i].function_name \in ret.function_name
      /\ OrderedDesc(ret.value)
      /\ Len(ret.value) = Min(ret.limit, Cardinality(Matching(ret.function_name)))

\* The filter get_logs applies: an empty string filters nothing.
EffectiveFilter(function_name) == IF function_name = {""} THEN {} ELSE function_name

\* C7 as amended: for every limit >= 0 and every non-empty function_name f,
\* get_logs returns only resident entries whose function_name is f (none if f
\* is unknown), ordered by timestamp descending, min(limit, matches) of
\* them; with no function_name, or with the empty string, it returns entries
\* across all functions under the same rule; with a negative limit it
\* returns the ordered candidates without their last -limit entries.
C7_Query ==
    ret.op = "get_logs" =>
      LET f == EffectiveFilter(ret.function_name)
          n == Cardinality(Matching(f))
      IN  /\ \A i \in 1..Len(ret.value) :
                /\ Contains(logs, ret.value[i])
                /\ f # {} => ret.value[i].function_name \in f
          /\ \A i, j \in 1..Len(ret.value) :
                i # j => ret.value[i].id # ret.value[j].id
          /\ OrderedDesc(ret.value)
          /\ Len(ret.value) = (IF ret.limit >= 0 THEN Min(ret.limit, n)
                               ELSE Max(n + ret.limit, 0))

\* A filtered query truncated by its limit, over a bucket whose insertion
\* order is not its timestamp order.
C7_Witness ==
    /\ ret.op = "get_logs"
    /\ ret.function_name = {"f"}
    /\ ret.limit = 1
    /\ Cardinality(Matching({"f"})) >= 2
    /\ Cardinality(Matching({"f"})) < Len(logs)
    /\ ret.value[1] # logs_by_function["f"][1]

\* C19: a step that is a read (get_logs, get_log_by_id, the detail route)
\* leaves logs, the key set of the index and every bucket as they were; in
\* particular get_logs for a function name the index does not hold creates
\* no bucket, and sorting the result reorders nothing in the store.
C19_ReadOnly ==
    [][(nextId' = nextId /\ ret'.op \in ReaderOps)
       => /\ logs' = logs
          /\ DOMAIN logs_by_function' = DOMAIN logs_by_function
          /\ \A k \in DOMAIN logs_by_function : logs_by_function'[k] = logs_by_function[k]]_vars

\* get_logs has just answered for a function name the index does not hold,
\* over a store whose entries are not in descending timestamp order.
C19_Witness ==
    /\ ret.op = "get_logs"
    /\ Truthy(ret.function_name)
    /\ TheString(ret.function_name) \notin DOMAIN logs_by_function
    /\ ret.value = <<>>
    /\ \E i, j \in 1..Len(logs) : i < j /\ logs[i].timestamp < logs[j].timestamp

-----------------------------------------------------------------------------
(* Properties of the ingestion path *)

\* The request bytes are an uncompressed, well-formed batch.
WellFormedBatch ==
    /\ request_body # None
    /\ request_body.encoding = "raw"
    /\ request_body.payload.wire = "protobuf"
    /\ \A now \in ClockValues : parse_protobuf_logs_value(request_body, now).ok

\* C5 as stated: a successful POST /api/logs of a batch of N well-formed
\* records leaves the store with min(N, Capacity - count) more entries than
\* before, and its response reports logs_added.
C5_AsStated ==
    [][(/\ ret'.op = "decode_protobuf_logs"
        /\ ret'.response.status = 200
        /\ WellFormedBatch
        /\ TotalLogRecords(request_body.payload.message) >= 1)
       => /\ Len(logs') = Len(logs)
                + Min(TotalLogRecords(request_body.payload.message),
                      Capacity - Len(logs))
          /\ "logs_added" \in DOMAIN ret'.response.body]_vars

\* text.split('|') on a token sequence
RECURSIVE SplitPipe(_)
SplitPipe(text) ==
    IF \A i \in 1..Len(text) : text[i] # "|" THEN <<text>>
    ELSE LET i == CHOOSE i \in 1..Len(text) :
                      text[i] = "|" /\ \A j \in 1..(i - 1) : text[j] # "|"
         IN  <<SubSeq(text, 1, i - 1)>> \o SplitPipe(SubSeq(text, i + 1, Len(text)))

\* The string a segment of one token stands for.
SegmentText(segment) == IF Len(segment) = 1 THEN segment[1] ELSE ""

\* Numeric value of a duration segment once a trailing "ms" is stripped
\* (tenths of a millisecond), or unchanged when it is not numeric.
SegmentDuration(segment, unchanged) ==
    IF segment = <<"12.5ms">> THEN 125 ELSE unchanged

\* The record a resident entry was parsed from: the entries of this
\* specification are added in batch order to an empty store.
SourceOf(entry) == RecordContexts(request_body.payload.message)[entry.id]

BodyText(log_record) ==
    IF HasField(log_record.body, "string_value") THEN log_record.body.string_value
    ELSE <<>>

IsLegacy(log_record) == Len(SplitPipe(BodyText(log_record))) >= 5

\* The otel.log_data object of a record, empty when the attribute is
\* absent or does not parse as a JSON object.
OtelLogData(log_record) ==
    LET hits == {i \in 1..Len(log_record.attributes) :
                    /\ log_record.attributes[i].key = "otel.log_data"
                    /\ HasField(log_record.attributes[i].value, "string_value")}
    IN  IF hits = {} THEN EmptyDict
        ELSE LET loaded == json_loads(
                     log_record.attributes[CHOOSE i \in hits : TRUE].value.string_value)
             IN  IF loaded.ok /\ loaded.v.t = "dict" THEN loaded.v.v ELSE EmptyDict

\* C8 as stated: a record whose body splits on '|' into 5 or more segments
\* is normalized with level = segment[1], function_name = segment[2],
\* duration_ms = the number in segment[3] and message = segment[4],
\* whatever otel.log_data gave.
C8_AsStated ==
    \A i \in 1..Len(logs) :
        LET log_record == SourceOf(logs[i]).log_record
            segments   == SplitPipe(BodyText(log_record))
        IN  IsLegacy(log_record) =>
              /\ logs[i].level = SegmentText(segments[2])
              /\ logs[i].function_name = SegmentText(segments[3])
              /\ logs[i].duration_ms =
                    SegmentDuration(segments[4],
                                    Get(OtelLogData(log_record), "duration_ms", 0))
              /\ logs[i].message = segments[5]

\* C9 as stated: without a legacy override the level is
\* otel.log_data.level when present, else severity_text when non-empty,
\* else "INFO".
C9_AsStated ==
    \A i \in 1..Len(logs) :
        LET log_record == SourceOf(logs[i]).log_record
            otel       == OtelLogData(log_record)
        IN  ~IsLegacy(log_record) =>
              logs[i].level =
                 (IF "level" \in DOMAIN otel THEN otel.level
                  ELSE IF log_record.severity_text # "" THEN log_record.severity_text
                  ELSE "INFO")

\* C10 as stated: function_name, and the bucket the entry is filed under,
\* is otel.log_data.function_name when present, else the enclosing scope's
\* name, else "unknown".
C10_AsStated ==
    \A i \in 1..Len(logs) :
        LET source     == SourceOf(logs[i])
            otel       == OtelLogData(source.log_record)
            expected   == IF "function_name" \in DOMAIN otel THEN otel.function_name
                          ELSE IF source.scope_logs.scope.name # ""
                               THEN source.scope_logs.scope.name
                          ELSE "unknown"
        IN  ~IsLegacy(source.log_record) =>
              /\ logs[i].function_name = expected
              /\ Contains(Bucket(logs_by_function, expected), logs[i])

\* The last completed call is a POST /api/logs.
Posted == ret.op = "decode_protobuf_logs"

ClientError == 400..499

\* C11 as stated: a request whose Content-Encoding is gzip but whose body
\* does not start with the gzip magic bytes is not rejected; its bytes are
\* decoded as an uncompressed envelope.
C11_AsStated ==
    (/\ Posted
     /\ ret.content_encoding = "gzip"
     /\ request_body.encoding = "raw")
    => ret.response = DecodeResponse("", request_body)

\* The envelope in hand cannot be decoded: invalid protobuf, or a corrupt
\* gzip stream announced by the header.
EnvelopeFailure(content_encoding) ==
    \/ request_body.payload.wire = "truncated"
    \/ content_encoding = "gzip" /\ request_body.encoding = "badgzip"

\* C12 as stated: an envelope-level decode failure fails the whole ingest
\* call, is answered with a client error (4xx) and not a server error, and
\* leaves the store as it was.
C12_AsStated ==
    [][(/\ ret' # ret
        /\ ret'.op = "decode_protobuf_logs"
        /\ EnvelopeFailure(ret'.content_encoding))
       => /\ ret'.response.status \in ClientError
          /\ logs' = logs
          /\ logs_by_function' = logs_by_function]_vars

ProtobufTypes == {"application/x-protobuf", "application/octet-stream"}

\* C14 as stated: for an uncompressed body, protobuf content types are
\* decoded as protobuf and application/json as JSON; for any other content
\* type protobuf is tried first and a client error is reported when that
\* fails.
C14_AsStated ==
    (/\ Posted
     /\ ret.content_encoding = ""
     /\ request_body.encoding = "raw")
    => LET wire == request_body.payload.wire
           type == ret.content_type
       IN  /\ (type \in ProtobufTypes /\ wire = "protobuf") => ret.response.status = 200
           /\ (type = "application/json" /\ wire = "json") => ret.response.status = 200
           /\ type \notin ProtobufTypes \cup {"application/json"} =>
                 IF wire = "protobuf" THEN ret.response.status = 200
                 ELSE ret.response.status \in ClientError

\* The request in hand is an uncompressed, decodable envelope.
RawProtobuf == request_body.encoding = "raw" /\ request_body.payload.wire = "protobuf"

\* The records of the envelope in hand, in order, with their groups.
Contexts == RecordContexts(request_body.payload.message)

\* The record carries an otel.log_data string that is not JSON.
Unparsable(log_record) ==
    \E i \in 1..Len(log_record.attributes) :
        /\ log_record.attributes[i].key = "otel.log_data"
        /\ HasField(log_record.attributes[i].value, "string_value")
        /\ ~json_loads(log_record.attributes[i].value.string_value).ok

\* What record i of the envelope in hand parses to when taken alone.
Alone(i) == ParsedRecord(Contexts[i], CHOOSE now \in ClockValues : TRUE)

DefaultedFields(entry) ==
    /\ entry.function_name = "unknown"
    /\ entry.module = "unknown"
    /\ entry.duration_ms = 0
    /\ entry.status = "unknown"
    /\ entry.args = {} /\ entry.kwargs = {} /\ entry.result = {}
    /\ entry.error = {} /\ entry.error_type = {}

\* C13: when a record's otel.log_data string is not JSON and every other
\* record of the batch parses, the batch is parsed, the record is produced
\* with function_name and module "unknown", duration_ms 0, status "unknown"
\* and no optional field, and every sibling is produced as it is alone.
C13_Tolerant ==
    (/\ parsed_logs # None
     /\ RawProtobuf
     /\ \E i \in 1..Len(Contexts) : Unparsable(Contexts[i].log_record)
     /\ \A j \in 1..Len(Contexts) :
            ~Unparsable(Contexts[j].log_record) => Alone(j).ok)
    => /\ parsed_logs.ok
       /\ Len(parsed_logs.v) = Len(Contexts)
       /\ \A i \in 1..Len(Contexts) :
             IF Unparsable(Contexts[i].log_record)
             THEN DefaultedFields(parsed_logs.v[i])
             ELSE parsed_logs.v[i] = Alone(i).v

\* A batch of two whose first record carries text that is no JSON has been
\* parsed and both records have reached the store, the second with the
\* function name it carries.
C13_Witness ==
    /\ parsed_logs # None
    /\ RawProtobuf
    /\ Len(Contexts) = 2
    /\ Unparsable(Contexts[1].log_record)
    /\ ~Unparsable(Contexts[2].log_record)
    /\ parsed_logs.ok
    /\ Len(logs) = 2
    /\ DefaultedFields(logs[1])
    /\ logs[2].function_name = "f"

\* The record's otel.log_data is JSON text for something other than an
\* object, or an attribute value that is neither a string nor a mapping.
NotAnObject(log_record) ==
    \E i \in 1..Len(log_record.attributes) :
        LET value == log_record.attributes[i].value
        IN  /\ log_record.attributes[i].key = "otel.log_data"
            /\ \/ /\ HasField(value, "string_value")
                  /\ json_loads(value.string_value).ok
                  /\ json_loads(value.string_value).v.t # "dict"
               \/ HasField(value, "int_value")

\* The entries of the first n records of the envelope in hand, the records
\* that fail on their own left out.
RECURSIVE Kept(_)
Kept(n) ==
    IF n = 0 THEN <<>>
    ELSE Kept(n - 1) \o (IF Alone(n).ok THEN <<Alone(n).v>> ELSE <<>>)

\* C16 as stated: when the only records that fail are records whose
\* otel.log_data is not an object, the batch is still parsed: exactly those
\* records are skipped and every other record is produced, in order.
C16_AsStated ==
    (/\ parsed_logs # None
     /\ RawProtobuf
     /\ \E i \in 1..Len(Contexts) : NotAnObject(Contexts[i].log_record)
     /\ \A j \in 1..Len(Contexts) :
            ~NotAnObject(Contexts[j].log_record) => Alone(j).ok)
    => /\ parsed_logs.ok
       /\ parsed_logs.v = Kept(Len(Contexts))

\* The record has attributes and none of them is otel.log_data.
PlainAttributes(log_record) ==
    /\ log_record.attributes # <<>>
    /\ \A i \in 1..Len(log_record.attributes) :
           log_record.attributes[i].key # "otel.log_data"

\* C17 as stated: every attribute value is decoded, at any depth and without
\* raising, to what the recursive decoding of its AnyValue gives: an array
\* to the list of its decoded elements, a key-value list to a mapping.
C17_AsStated ==
    (/\ parsed_logs # None
     /\ RawProtobuf
     /\ Len(Contexts) = 1
     /\ PlainAttributes(Contexts[1].log_record))
    => /\ parsed_logs.ok
       /\ LET attributes == Contexts[1].log_record.attributes
          IN  \A i \in 1..Len(attributes) :
                  parsed_logs.v[1].log_attributes[attributes[i].key]
                      = extract_any_value(attributes[i].value)

-----------------------------------------------------------------------------
(* Properties of the logger *)

\* C15 as stated: a call of a decorated function invokes the function
\* exactly once and ends exactly as the function ended, with its return
\* value or its exception, whether the logger is configured or not and
\* whether the logging calls raise or not.
C15_AsStated ==
    ret.op = "wrapper" => ret.calls = 1 /\ ret.outcome = ret.func

\* C18: construction always yields the one instance, which is never
\* replaced; once initialized, nothing a later call does changes the flag,
\* the endpoint or the telemetry attributes; the flag is raised only by a
\* configure call that completes, which stores its endpoint (or the
\* default); a configure call in which the setup raises leaves the logger
\* uninitialized.
C18_ConfiguredOnce ==
    [][/\ instance # 0 => instance' = instance
       /\ ret'.op = "StaticLogger" => ret'.value = instance' /\ instance' # 0
       /\ initialized => UNCHANGED <<initialized, endpoint, telemetry>>
       /\ (~initialized /\ initialized') =>
             /\ ret'.op = "configure"
             /\ ~ret'.raised
             /\ endpoint' = {EndpointOrDefault(ret'.endpoint)}
       /\ (~initialized /\ ret' # ret /\ ret'.op = "configure") =>
             (initialized' <=> ~ret'.raised)]_vars

\* A configure call with another endpoint has returned on the initialized
\* logger, whose endpoint is still the one of the first completed call.
C18_Witness ==
    /\ initialized
    /\ ret.op = "configure"
    /\ ret.endpoint = {"http://other:4317"}
    /\ endpoint = {"http://collector:4317"}
    /\ objects = 1

====
